---- MODULE Spec2Model ----
(***************************************************************************)
(* Model of the documentation workflow of src/main.py: the CodeState       *)
(* record, the four nodes (research, document, analyze, final), the        *)
(* conditional edge should_skip_documentation, the graph wired by          *)
(* create_workflow and the driver run_documentation_workflow.              *)
(*                                                                         *)
(* Text is modelled as a sequence of one-character strings, so that the    *)
(* substring tests, split(), strip() and lower() of the source are         *)
(* computed character by character.                                        *)
(***************************************************************************)
EXTENDS Integers, Sequences, FiniteSets, TLC

(***************************************************************************)
(* Bounds of the model.                                                    *)
(***************************************************************************)
\* number of words a source text (code_input) is built from
MaxCodeWords == 2
\* number of words a reply of the analysis agent is built from
MaxReportWords == 2
\* number of words a reply handed to the code-fence clean-up is built from
MaxFenceWords == 4

(***************************************************************************)
(* Python str primitives.                                                  *)
(***************************************************************************)
RECURSIVE Flatten(_)
\* "".join(words)
Flatten(ws) == IF ws = <<>> THEN <<>> ELSE Head(ws) \o Flatten(Tail(ws))

\* all sequences of at most n elements of S
SeqsUpTo(S, n) == UNION {[1..k -> S] : k \in 0..n}

\* every text that is the concatenation of at most n words of W
Texts(W, n) == {Flatten(ws) : ws \in SeqsUpTo(W, n)}

\* sub occurs in s starting at index i (1-based)
MatchAt(sub, s, i) ==
    /\ i >= 1
    /\ i + Len(sub) - 1 <= Len(s)
    /\ \A k \in 1..Len(sub) : s[i + k - 1] = sub[k]

RECURSIVE FindFrom(_, _, _)
\* index of the leftmost occurrence of sub in s at or after i, 0 when absent
FindFrom(sub, s, i) ==
    IF i + Len(sub) - 1 > Len(s) THEN 0
    ELSE IF MatchAt(sub, s, i) THEN i
    ELSE FindFrom(sub, s, i + 1)

\* str.find + 1: index of the leftmost occurrence of sub in s, 0 when absent
FindFirst(sub, s) == FindFrom(sub, s, 1)

\* the Python expression  sub in s  (sub non-empty)
Contains(sub, s) == FindFirst(sub, s) # 0

\* s.split(sep)[0]: the text before the leftmost sep, all of s when absent
BeforeFirst(s, sep) ==
    IF Contains(sep, s) THEN SubSeq(s, 1, FindFirst(sep, s) - 1) ELSE s

\* the text after the leftmost sep (requires sep in s)
AfterFirst(s, sep) == SubSeq(s, FindFirst(sep, s) + Len(sep), Len(s))

\* s.split(sep)[1] (requires sep in s): between the first and the second sep
SplitSecond(s, sep) == BeforeFirst(AfterFirst(s, sep), sep)

RECURSIVE SplitAll(_, _)
\* s.split(sep): the list of all pieces
SplitAll(s, sep) ==
    IF Contains(sep, s)
    THEN <<BeforeFirst(s, sep)>> \o SplitAll(AfterFirst(s, sep), sep)
    ELSE <<s>>

\* the whitespace characters that occur in the modelled texts
Whitespace == {" ", "\n", "\t", "\r"}

RECURSIVE LStrip(_)
LStrip(s) ==
    IF s # <<>> /\ Head(s) \in Whitespace THEN LStrip(Tail(s)) ELSE s

RECURSIVE RStrip(_)
RStrip(s) ==
    IF s # <<>> /\ s[Len(s)] \in Whitespace
    THEN RStrip(SubSeq(s, 1, Len(s) - 1))
    ELSE s

\* str.strip()
Strip(s) == RStrip(LStrip(s))

UpperLetters == <<"A","B","C","D","E","F","G","H","I","J","K","L","M",
                  "N","O","P","Q","R","S","T","U","V","W","X","Y","Z">>
LowerLetters == <<"a","b","c","d","e","f","g","h","i","j","k","l","m",
                  "n","o","p","q","r","s","t","u","v","w","x","y","z">>

\* the lower-case letter of every upper-case letter
LowerOf ==
    [c \in {UpperLetters[i] : i \in 1..26} |->
        LowerLetters[CHOOSE i \in 1..26 : UpperLetters[i] = c]]

LowerChar(c) == IF c \in DOMAIN LowerOf THEN LowerOf[c] ELSE c

\* str.lower()
Lower(s) == [i \in 1..Len(s) |-> LowerChar(s[i])]

(***************************************************************************)
(* Literals of the source.                                                 *)
(***************************************************************************)
TripleDouble == <<"\"", "\"", "\"">>
TripleSingle == <<"'", "'", "'">>
Hash == <<"#">>
\* the grave accent (backtick) character, which a TLA+ string cannot hold
Backtick == "BACKTICK"
Fence == <<Backtick, Backtick, Backtick>>
PythonFence == Fence \o <<"p","y","t","h","o","n">>
Newline == <<"\n">>

Keywords == << <<"e","r","r","o","r">>,
               <<"i","s","s","u","e">>,
               <<"p","r","o","b","l","e","m">>,
               <<"f","a","i","l">>,
               <<"e","x","c","e","p","t","i","o","n">>,
               <<"w","a","r","n","i","n","g">> >>

\* "No critical issues identified during analysis"
NoIssuesSentinel ==
    <<"N","o"," ","c","r","i","t","i","c","a","l"," ","i","s","s","u","e","s",
      " ","i","d","e","n","t","i","f","i","e","d"," ","d","u","r","i","n","g",
      " ","a","n","a","l","y","s","i","s">>

\* "Analysis completed but no detailed results captured"
NoResultsSentinel ==
    <<"A","n","a","l","y","s","i","s"," ","c","o","m","p","l","e","t","e","d",
      " ","b","u","t"," ","n","o"," ","d","e","t","a","i","l","e","d"," ",
      "r","e","s","u","l","t","s"," ","c","a","p","t","u","r","e","d">>

\* lines shorter than or equal to this are never recorded as issues
MinIssueLen == 10

(***************************************************************************)
(* Pure parts of the nodes.                                                *)
(***************************************************************************)
\* HasDocs with the test for the hash character left out
HasDocsNoHash(code) ==
    \/ Contains(TripleDouble, code)
    \/ Contains(TripleSingle, code)

\* research_node: the documentation presence check on original_code
HasDocs(code) ==
    \/ Contains(TripleDouble, code)
    \/ Contains(TripleSingle, code)
    \/ Contains(Hash, code)

\* StripCodeFence that trims the reply also when it holds no fence
StripCodeFenceAlwaysTrims(documented_code) ==
    IF Contains(PythonFence, documented_code)
    THEN Strip(BeforeFirst(SplitSecond(documented_code, PythonFence), Fence))
    ELSE IF Contains(Fence, documented_code)
         THEN Strip(BeforeFirst(SplitSecond(documented_code, Fence), Fence))
         ELSE Strip(documented_code)

\* document_node: clean up the reply to extract just the code
StripCodeFence(documented_code) ==
    IF Contains(PythonFence, documented_code)
    THEN Strip(BeforeFirst(SplitSecond(documented_code, PythonFence), Fence))
    ELSE IF Contains(Fence, documented_code)
         THEN Strip(BeforeFirst(SplitSecond(documented_code, Fence), Fence))
         ELSE documented_code

\* any(keyword in lowered for keyword in [...])
AnyKeywordIn(lowered) ==
    \E k \in 1..Len(Keywords) : Contains(Keywords[k], lowered)

\* any(keyword in line.lower() for keyword in [...])
HasKeyword(line) == AnyKeywordIn(Lower(line))

\* IsIssueLine with len(line) >= 10 in place of len(line) > 10
IsIssueLineAtLeast(line) ==
    /\ HasKeyword(line)
    /\ line # <<>>
    /\ Len(line) >= MinIssueLen

\* the test a stripped line passes to be appended to issues
IsIssueLine(line) ==
    /\ HasKeyword(line)
    /\ line # <<>>
    /\ Len(line) > MinIssueLen

\* the loop over response_text.split('\n'): stripped lines that pass the test
ExtractIssueLines(response_text) ==
    LET lines == SplitAll(response_text, Newline)
        stripped == [i \in 1..Len(lines) |-> Strip(lines[i])]
    IN  SelectSeq(stripped, IsIssueLine)

(* A reply of the analysis agent is [is_str, text]: is_str tells whether   *)
(* the content is a str, text is the content (str(content) when it is not).*)

\* analyze_node: the test_results list it returns
TestResultsOf(reply) ==
    LET test_results == <<reply.text>>
    IN  IF test_results = <<>> THEN <<NoResultsSentinel>> ELSE test_results

\* IssuesOf without the fallback entry
IssuesOfNoFallback(reply) ==
    IF reply.is_str THEN ExtractIssueLines(reply.text) ELSE <<>>

\* analyze_node: the issues list it returns
IssuesOf(reply) ==
    LET issues == IF reply.is_str THEN ExtractIssueLines(reply.text) ELSE <<>>
    IN  IF issues = <<>> THEN <<NoIssuesSentinel>> ELSE issues

\* CodeOrOriginal without the fallback to original_code
CodeOrOriginalNoFallback(s) == s.documented_code

\* analyze_node and final_node:  state.get('documented_code') or original_code
CodeOrOriginal(s) ==
    IF s.documented_code # <<>> THEN s.documented_code ELSE s.original_code

(***************************************************************************)
(* Inputs: the texts the caller and the collaborators can supply.          *)
(***************************************************************************)
CodeWords == {TripleDouble, TripleSingle, Hash, <<"\"">>, <<"x">>}

\* the values of code_input
CodeInputs == Texts(CodeWords, MaxCodeWords)

\* what ast.parse / ast.walk may collect; no node reads the names themselves
LibraryLists == {<<>>, << <<"o","s">> >>}

\* replies of the documentation model (result.content)
DocReplies ==
    { <<>>,
      <<"x">>,
      <<"#", "x">>,
      PythonFence \o <<"\n", "x", "\n">> \o Fence \o <<"y">>,
      Fence \o <<"\n", "x", "\n">> \o Fence,
      <<"s">> \o Fence \o <<" ">> \o Fence }

ReportWords ==
    { <<"e","r","r","o","r">>,
      <<"W","a","r","n","i","n","g",":"," ","x","\n">>,
      <<" "," ","F","A","I","L">>,
      <<"x","x","x","x","x","x">>,
      Newline }

\* str(content) of the replies of the analysis agent that are not a str
NonStrReprs == { <<"[", "]">>, <<"N","o","n","e">> }

\* replies of the analysis agent (result["messages"][-1].content)
AnalysisReplies ==
    {[is_str |-> TRUE, text |-> t] : t \in Texts(ReportWords, MaxReportWords)}
    \cup {[is_str |-> FALSE, text |-> t] : t \in NonStrReprs}

(***************************************************************************)
(* State.                                                                  *)
(***************************************************************************)
VARIABLES
    state,          \* the CodeState the graph holds between nodes
    pc,             \* the node to run next, "route", "END", "returned", "raised"
    router_state,   \* the dict should_skip_documentation was called with
    code_to_analyze,\* the code text analyze_node sent to its agent
    agent_reply,    \* the last reply of the analysis agent
    trace,          \* the nodes invoked so far, in order
    raised_in,      \* the node whose collaborator call raised, or "none"
    final_result,   \* run_documentation_workflow: the last streamed step_data
    result,         \* run_documentation_workflow: the value returned
    code_py,        \* the artifact code.py of this run
    analysis_txt,   \* the artifact analysis.txt of this run
    saves,          \* the save functions final_node has called, in order
    fence_pc,       \* position of the clean-up applied on its own
    fence_in,       \* the text handed to the clean-up
    fence_out,      \* the clean-up of fence_in
    fence_out2      \* the clean-up of fence_out

wfvars == <<state, pc, router_state, code_to_analyze, agent_reply, trace,
            raised_in, final_result, result, code_py, analysis_txt, saves>>
fencevars == <<fence_pc, fence_in, fence_out, fence_out2>>
vars == <<wfvars, fencevars>>

\* Python None
None == [none |-> TRUE]

\* a file that this run has not written
Absent == [status |-> "absent"]

\* run_documentation_workflow: initial_state
InitialState(code_input) ==
    [ original_code |-> code_input,
      documented_code |-> <<>>,
      has_documentation |-> FALSE,
      libraries_used |-> <<>>,
      test_results |-> <<>>,
      issues_found |-> <<>>,
      current_step |-> "start" ]

(***************************************************************************)
(* The nodes as functions from the state they receive to the state they    *)
(* return.                                                                 *)
(***************************************************************************)
research_node(s, libraries) ==
    [s EXCEPT !.libraries_used = libraries,
              !.has_documentation = HasDocs(s.original_code),
              !.current_step = "researched"]

document_node(s, content) ==
    [s EXCEPT !.documented_code = StripCodeFence(content),
              !.current_step = "documented"]

\* analyze_node that writes the current_step of document_node
analyze_node_wrong_step(s, reply) ==
    [s EXCEPT !.test_results = TestResultsOf(reply),
              !.issues_found = IssuesOf(reply),
              !.current_step = "documented"]

analyze_node(s, reply) ==
    [s EXCEPT !.test_results = TestResultsOf(reply),
              !.issues_found = IssuesOf(reply),
              !.current_step = "analyzed"]

final_node(s) == [s EXCEPT !.current_step = "completed"]

\* should_skip_documentation that never skips
should_skip_documentation_never(s) == "document"

\* the value should_skip_documentation returns
should_skip_documentation(s) ==
    IF s.has_documentation THEN "analyze" ELSE "document"

\* the dict should_skip_documentation leaves behind: its in-place assignment
RouterDictAfter(s) ==
    IF s.has_documentation
    THEN [s EXCEPT !.documented_code = s.original_code]
    ELSE s

\* create_workflow: the mapping of add_conditional_edges
PathMap(route) == IF route = "document" THEN "document" ELSE "analyze"

\* Edge with the edge from analyze leading straight to END
EdgeSkipsFinal(node) ==
    CASE node = "document" -> "analyze"
      [] node = "analyze" -> "END"
      [] node = "final" -> "END"

\* create_workflow: add_edge
Edge(node) ==
    CASE node = "document" -> "analyze"
      [] node = "analyze" -> "final"
      [] node = "final" -> "END"

(* The save functions: ok tells whether open() and every write() succeed. *)
(* Each yields the file after the call and whether the call raises; the    *)
(* try/except Exception around the whole body means it never does.         *)
\* save_documented_code without its except clause
save_documented_code_uncaught(documented_code, ok) ==
    [ file |-> IF ok THEN [status |-> "written", content |-> documented_code]
                     ELSE [status |-> "failed"],
      raises |-> ~ok ]

save_documented_code(documented_code, ok) ==
    [ file |-> IF ok THEN [status |-> "written", content |-> documented_code]
                     ELSE [status |-> "failed"],
      raises |-> FALSE ]

save_analysis_results(s, ok) ==
    [ file |-> IF ok THEN [status |-> "written",
                           libraries |-> s.libraries_used,
                           issues |-> s.issues_found,
                           tests |-> s.test_results]
                     ELSE [status |-> "failed"],
      raises |-> FALSE ]

(***************************************************************************)
(* The run of run_documentation_workflow.  The graph hands every node and  *)
(* the conditional edge a dict built from the state it holds, and stores   *)
(* what a node returns; of the conditional edge it uses the returned route *)
(* only.                                                                   *)
(***************************************************************************)
FenceIdle ==
    /\ fence_pc = "idle"
    /\ fence_in = <<>>
    /\ fence_out = <<>>
    /\ fence_out2 = <<>>

Init ==
    /\ \E code_input \in CodeInputs : state = InitialState(code_input)
    /\ pc = "research"
    /\ router_state = None
    /\ code_to_analyze = None
    /\ agent_reply = None
    /\ trace = <<>>
    /\ raised_in = "none"
    /\ final_result = None
    /\ result = None
    /\ code_py = Absent
    /\ analysis_txt = Absent
    /\ saves = <<>>
    /\ FenceIdle

\* Raise with the exception swallowed and the run carried on to final
RaiseSwallowed(node) ==
    /\ pc = node
    /\ pc' = "final"
    /\ raised_in' = node
    /\ trace' = Append(trace, node)
    /\ UNCHANGED <<state, router_state, code_to_analyze, agent_reply,
                   final_result, result, code_py, analysis_txt, saves>>
    /\ UNCHANGED fencevars

\* a node's collaborator call raises: the exception leaves app.stream
Raise(node) ==
    /\ pc = node
    /\ pc' = "raised"
    /\ raised_in' = node
    /\ trace' = Append(trace, node)
    /\ UNCHANGED <<state, router_state, code_to_analyze, agent_reply,
                   final_result, result, code_py, analysis_txt, saves>>
    /\ UNCHANGED fencevars

Research ==
    /\ pc = "research"
    /\ \E libraries \in LibraryLists :
          state' = research_node(state, libraries)
    /\ final_result' = state'
    /\ trace' = Append(trace, "research")
    /\ pc' = "route"
    /\ UNCHANGED <<router_state, code_to_analyze, agent_reply, raised_in,
                   result, code_py, analysis_txt, saves>>
    /\ UNCHANGED fencevars

ResearchRaises == Raise("research")

Router ==
    /\ pc = "route"
    /\ router_state' = RouterDictAfter(state)
    /\ pc' = PathMap(should_skip_documentation(state))
    /\ UNCHANGED <<state, code_to_analyze, agent_reply, trace, raised_in,
                   final_result, result, code_py, analysis_txt, saves>>
    /\ UNCHANGED fencevars

Document ==
    /\ pc = "document"
    /\ \E content \in DocReplies : state' = document_node(state, content)
    /\ final_result' = state'
    /\ trace' = Append(trace, "document")
    /\ pc' = Edge("document")
    /\ UNCHANGED <<router_state, code_to_analyze, agent_reply, raised_in,
                   result, code_py, analysis_txt, saves>>
    /\ UNCHANGED fencevars

DocumentRaises == Raise("document")

Analyze ==
    /\ pc = "analyze"
    /\ code_to_analyze' = [text |-> CodeOrOriginal(state)]
    /\ \E reply \in AnalysisReplies :
          /\ agent_reply' = reply
          /\ state' = analyze_node(state, reply)
    /\ final_result' = state'
    /\ trace' = Append(trace, "analyze")
    /\ pc' = Edge("analyze")
    /\ UNCHANGED <<router_state, raised_in, result, code_py, analysis_txt,
                   saves>>
    /\ UNCHANGED fencevars

AnalyzeRaises == Raise("analyze")

Final ==
    /\ pc = "final"
    /\ trace' = Append(trace, "final")
    /\ \E code_ok, report_ok \in BOOLEAN :
          LET code_to_save == CodeOrOriginal(state)
              saved_code == save_documented_code(code_to_save, code_ok)
              saved_report == save_analysis_results(state, report_ok)
          IN  /\ code_py' = saved_code.file
              /\ IF saved_code.raises
                 THEN /\ saves' = Append(saves, "save_documented_code")
                      /\ UNCHANGED analysis_txt
                 ELSE /\ saves' = saves \o <<"save_documented_code",
                                              "save_analysis_results">>
                      /\ analysis_txt' = saved_report.file
              /\ IF saved_code.raises \/ saved_report.raises
                 THEN /\ pc' = "raised"
                      /\ raised_in' = "final"
                      /\ UNCHANGED <<state, final_result>>
                 ELSE /\ state' = final_node(state)
                      /\ final_result' = state'
                      /\ pc' = Edge("final")
                      /\ UNCHANGED raised_in
    /\ UNCHANGED <<router_state, code_to_analyze, agent_reply, result>>
    /\ UNCHANGED fencevars

\* the stream is exhausted: print the summary and return final_result
Return ==
    /\ pc = "END"
    /\ result' = final_result
    /\ pc' = "returned"
    /\ UNCHANGED <<state, router_state, code_to_analyze, agent_reply, trace,
                   raised_in, final_result, code_py, analysis_txt, saves>>
    /\ UNCHANGED fencevars

Next ==
    \/ Research
    \/ ResearchRaises
    \/ Router
    \/ Document
    \/ DocumentRaises
    \/ Analyze
    \/ AnalyzeRaises
    \/ Final
    \/ Return

Spec == Init /\ [][Next]_vars

\* the interpreter keeps executing the run: no step waits for anything
LiveSpec == Spec /\ WF_vars(Next)

(***************************************************************************)
(* The clean-up of document_node applied on its own, twice in a row.       *)
(***************************************************************************)
FenceWords ==
    { <<Backtick>>, Fence, <<"p","y","t","h","o","n">>, <<"x">>, <<" ">> }

FenceInputs == Texts(FenceWords, MaxFenceWords)

FenceInit ==
    /\ state = InitialState(<<>>)
    /\ pc = "research"
    /\ router_state = None
    /\ code_to_analyze = None
    /\ agent_reply = None
    /\ trace = <<>>
    /\ raised_in = "none"
    /\ final_result = None
    /\ result = None
    /\ code_py = Absent
    /\ analysis_txt = Absent
    /\ saves = <<>>
    /\ fence_pc = "start"
    /\ fence_in \in FenceInputs
    /\ fence_out = <<>>
    /\ fence_out2 = <<>>

FenceStrip ==
    /\ fence_pc = "start"
    /\ fence_out' = StripCodeFence(fence_in)
    /\ fence_pc' = "stripped"
    /\ UNCHANGED <<fence_in, fence_out2>>
    /\ UNCHANGED wfvars

FenceRestrip ==
    /\ fence_pc = "stripped"
    /\ fence_out2' = StripCodeFence(fence_out)
    /\ fence_pc' = "restripped"
    /\ UNCHANGED <<fence_in, fence_out>>
    /\ UNCHANGED wfvars

FenceNext ==
    \/ FenceStrip
    \/ FenceRestrip

FenceSpec == FenceInit /\ [][FenceNext]_vars

(***************************************************************************)
(* Vocabulary of the properties.                                           *)
(***************************************************************************)
\* the nodes that occur in the trace
Invoked == {trace[i] : i \in 1..Len(trace)}

\* how often a node occurs in the trace
Runs(node) == Cardinality({i \in 1..Len(trace) : trace[i] = node})

\* the run is over: the entry point has returned or an exception has left it
RunOver == pc \in {"returned", "raised"}

\* position of a value of current_step in start < researched < ... < completed
StepRank(step) ==
    CASE step = "start" -> 0
      [] step = "researched" -> 1
      [] step = "documented" -> 2
      [] step = "analyzed" -> 3
      [] step = "completed" -> 4

\* three equal characters c in a row somewhere in text
HasTriple(c, text) ==
    \E i \in 1..(Len(text) - 2) :
        text[i] = c /\ text[i + 1] = c /\ text[i + 2] = c

\* a documentation marker occurs in text
HasMarker(text) ==
    \/ HasTriple("\"", text)
    \/ HasTriple("'", text)
    \/ \E i \in 1..Len(text) : text[i] = "#"

\* a line of a report that names a failure keyword and has more than 10
\* characters once trimmed
KeywordAt(lowered, i) ==
    \E k \in 1..Len(Keywords) : MatchAt(Keywords[k], lowered, i)

QualifyingLine(line) ==
    LET trimmed == Strip(line)
    IN  /\ Len(trimmed) > 10
        /\ LET lowered == Lower(trimmed)
           IN  \E i \in 1..Len(lowered) : KeywordAt(lowered, i)

RECURSIVE SomeLineQualifies(_)
\* some line of the report qualifies
SomeLineQualifies(text) ==
    IF \E i \in 1..Len(text) : text[i] = "\n"
    THEN \/ QualifyingLine(BeforeFirst(text, Newline))
         \/ SomeLineQualifies(AfterFirst(text, Newline))
    ELSE QualifyingLine(text)

\* "No critical issues identified during analysis." with the final period
SentinelWithPeriod == NoIssuesSentinel \o <<".">>

AfterAnalyze == state.current_step \in {"analyzed", "completed"}

(***************************************************************************)
(* C1.  When Research sets has_documentation, Document is never invoked    *)
(* and the state Analyze receives has documented_code = original_code.     *)
(* The second half fails: the assignment of should_skip_documentation      *)
(* changes the dict it was called with, not the state Analyze receives.    *)
(***************************************************************************)
\* C1 as claimed: on the documented branch Document does not run and Analyze
\* starts with documented_code equal to original_code
C1_Claim ==
    state.has_documentation =>
        /\ "document" \notin Invoked
        /\ (pc = "analyze" => state.documented_code = state.original_code)

C3_Monotone ==
    /\ [][ /\ StepRank(state'.current_step) >= StepRank(state.current_step)
           /\ (state'.current_step # state.current_step =>
                 StepRank(state'.current_step) > StepRank(state.current_step))
         ]_vars
    /\ [](state.current_step = "documented" => "document" \in Invoked)

\* C3: a completed run in which Document ran
C3_Witness ==
    /\ state.current_step = "completed"
    /\ "document" \in Invoked

(***************************************************************************)
(* C4.  When every collaborator call returns, the run terminates and       *)
(* returns the output of Finalize, with current_step = "completed", after  *)
(* Research, Analyze, Finalize or Research, Document, Analyze, Finalize.   *)
(***************************************************************************)
\* C4: every run eventually either has a collaborator call raise or returns
\* the state Finalize produced, completed, after the nodes of its branch
C4_Terminates ==
    <>( \/ raised_in \in {"research", "document", "analyze"}
        \/ /\ pc = "returned"
           /\ result = final_node(state)
           /\ result = final_result
           /\ result.current_step = "completed"
           /\ trace = (IF result.has_documentation
                       THEN <<"research", "analyze", "final">>
                       ELSE <<"research", "document", "analyze", "final">>) )

\* C4: the run of a documented source has returned
C4_Witness ==
    /\ pc = "returned"
    /\ result.current_step = "completed"
    /\ trace = <<"research", "analyze", "final">>

(***************************************************************************)
(* C5.  A collaborator call that raises in Research, Document or Analyze   *)
(* aborts the run at that node: nothing runs afterwards, current_step      *)
(* never becomes "completed" and no artifact is written.                   *)
(***************************************************************************)
\* C5: once a node has raised the run is stopped at that node with nothing
\* returned, not completed and both artifacts absent, and stays so; an
\* artifact exists only after Finalize was invoked
C5_AbortIsFinal ==
    /\ [](raised_in # "none" =>
            /\ pc = "raised"
            /\ raised_in \in {"research", "document", "analyze"}
            /\ trace[Len(trace)] = raised_in
            /\ "final" \notin Invoked
            /\ state.current_step # "completed"
            /\ result = None
            /\ code_py = Absent
            /\ analysis_txt = Absent)
    /\ []((code_py # Absent \/ analysis_txt # Absent) => "final" \in Invoked)
    /\ [][raised_in # "none" => UNCHANGED vars]_vars

\* C5: the analysis agent raised after Document had run
C5_Witness ==
    /\ pc = "raised"
    /\ raised_in = "analyze"
    /\ trace = <<"research", "document", "analyze">>

(***************************************************************************)
(* C6.  A failed write of either artifact is caught in its save function:  *)
(* Finalize still calls the other save function, returns current_step =    *)
(* "completed", and nothing propagates out of the run.                     *)
(***************************************************************************)
\* C6: once Finalize was invoked, whatever the writes did, both save
\* functions were called, the state is completed, no exception left the run,
\* and what the run returns is completed
C6_SaveFailureCaught ==
    "final" \in Invoked =>
        /\ saves = <<"save_documented_code", "save_analysis_results">>
        /\ code_py # Absent
        /\ analysis_txt # Absent
        /\ state.current_step = "completed"
        /\ raised_in = "none"
        /\ pc \in {"END", "returned"}
        /\ (pc = "returned" => result.current_step = "completed")

\* C6: the write of code.py failed, the report was written, the run returned
C6_Witness ==
    /\ pc = "returned"
    /\ code_py.status = "failed"
    /\ analysis_txt.status = "written"

(***************************************************************************)
(* C7.  test_results and issues_found are non-empty whenever current_step  *)
(* is "analyzed" or "completed", whatever the analysis agent replied, and  *)
(* empty in every state before Analyze.                                    *)
(***************************************************************************)
\* C7: after Analyze both lists have at least one entry; before it both
\* are empty
C7_ListsNonEmpty ==
    /\ (AfterAnalyze =>
            /\ Len(state.test_results) >= 1
            /\ Len(state.issues_found) >= 1)
    /\ (~AfterAnalyze =>
            /\ state.test_results = <<>>
            /\ state.issues_found = <<>>)

\* C7: Analyze has run on an empty str reply
C7_Witness ==
    /\ state.current_step = "analyzed"
    /\ agent_reply = [is_str |-> TRUE, text |-> <<>>]

(***************************************************************************)
(* C8.  When no line of the report both names a keyword (in any case) and  *)
(* is longer than 10 characters, issues_found after Analyze is the single  *)
(* sentinel entry.                                                         *)
(***************************************************************************)
\* C8 as claimed: the single entry is the sentinel text ending in a period
\* (stated as: after Analyze issues_found is that list or some line qualifies)
C8_Claim ==
    AfterAnalyze =>
        \/ state.issues_found = <<SentinelWithPeriod>>
        \/ SomeLineQualifies(agent_reply.text)

\* C8 amended: for every report without a qualifying line, issues_found
\* after Analyze is exactly the one-element list
\* ["No critical issues identified during analysis"], without a final period
\* (stated as: after Analyze issues_found is that list or some line qualifies)
C8_Amended ==
    AfterAnalyze =>
        \/ state.issues_found = <<NoIssuesSentinel>>
        \/ SomeLineQualifies(agent_reply.text)

\* C8: Analyze has run on a report whose only keyword line has exactly 10
\* characters
C8_Witness ==
    /\ state.current_step = "analyzed"
    /\ agent_reply = [is_str |-> TRUE,
                      text |-> <<"e","r","r","o","r","e","r","r","o","r">>]

(***************************************************************************)
(* C9.  From the end of Research on, has_documentation is true exactly     *)
(* when original_code contains three double quotes in a row, three single  *)
(* quotes in a row, or a hash, and no later step changes it.               *)
(***************************************************************************)
\* C9: after Research has_documentation equals the presence of a marker in
\* original_code, and neither it nor original_code changes afterwards
C9_HasDocumentation ==
    /\ [](state.current_step # "start" =>
            (state.has_documentation <=> HasMarker(state.original_code)))
    /\ [][ /\ state'.original_code = state.original_code
           /\ (state.current_step # "start" =>
                 state'.has_documentation = state.has_documentation) ]_vars

\* C9: a completed run on a source whose only marker is a hash
C9_Witness ==
    /\ state.current_step = "completed"
    /\ state.original_code = <<"x", "#">>
    /\ state.has_documentation

(***************************************************************************)
(* C10.  The code-fence clean-up yields a text without a fence marker, is  *)
(* idempotent, and returns a fence-free text unchanged, untrimmed.         *)
(***************************************************************************)
\* C10: the cleaned text holds no three backticks in a row, cleaning it
\* again changes nothing, and a text without three backticks in a row comes
\* back as it went in
C10_Idempotent ==
    /\ (fence_pc \in {"stripped", "restripped"} =>
            /\ ~HasTriple(Backtick, fence_out)
            /\ (~HasTriple(Backtick, fence_in) => fence_out = fence_in))
    /\ (fence_pc = "restripped" => fence_out2 = fence_out)

\* C10: a tagged fenced block was cleaned twice
C10_Witness ==
    /\ fence_pc = "restripped"
    /\ fence_in = PythonFence \o <<"x">> \o Fence
    /\ fence_out = <<"x">>
    /\ fence_out2 = <<"x">>

(***************************************************************************)
(* C11.  Analyze sends documented_code to its agent when that is not       *)
(* empty and original_code otherwise; so when Document ran and its cleaned *)
(* reply is empty, Analyze tests original_code.                            *)
(***************************************************************************)
\* C11: once Analyze has sent its message, the code in it is documented_code
\* if that has at least one character and original_code if it has none
C11_CodeSent ==
    code_to_analyze # None =>
        /\ (Len(state.documented_code) > 0 =>
                code_to_analyze.text = state.documented_code)
        /\ (Len(state.documented_code) = 0 =>
                code_to_analyze.text = state.original_code)

\* C11: Document ran, its cleaned reply was empty, and Analyze sent the
\* non-empty original_code
C11_Witness ==
    /\ trace = <<"research", "document", "analyze">>
    /\ state.documented_code = <<>>
    /\ state.original_code = <<"x">>
    /\ code_to_analyze = [text |-> <<"x">>]

====
